---- MODULE Spec2Model ----
(***************************************************************************)
(* Model of the two index generators of utility-tools:                     *)
(*   create_obsidian_index.py  (directory-grouped, tool "obsidian")        *)
(*   index_generator.py        (category-grouped,  tool "generator")       *)
(* Strings are tuples of one-character strings, compared by code point as  *)
(* Python compares str; paths are tuples of components as pathlib (POSIX   *)
(* flavour) keeps them.                                                    *)
(***************************************************************************)
EXTENDS Integers, Sequences, FiniteSets, TLC

(* ---------------------------- bounds ---------------------------------- *)
\* largest number of directory entries in the scanned tree before the run
MaxFiles == 3
\* number of consecutive invocations of the tool on the same root
MaxRuns == 2

(* ---------------------------- str -------------------------------------- *)
\* ord(c) for the characters that occur in the modelled names
Ord ==
  ("-" :> 45) @@ ("." :> 46) @@ ("/" :> 47) @@ (" " :> 32) @@ ("_" :> 95) @@
  ("A" :> 65) @@ ("B" :> 66) @@ ("D" :> 68) @@ ("I" :> 73) @@ ("R" :> 82) @@
  ("S" :> 83) @@ ("W" :> 87) @@ ("Z" :> 90) @@
  ("a" :> 97) @@ ("b" :> 98) @@ ("c" :> 99) @@ ("d" :> 100) @@ ("e" :> 101) @@
  ("g" :> 103) @@ ("h" :> 104) @@ ("i" :> 105) @@ ("k" :> 107) @@ ("m" :> 109) @@
  ("n" :> 110) @@ ("o" :> 111) @@ ("p" :> 112) @@ ("r" :> 114) @@ ("s" :> 115) @@
  ("t" :> 116) @@ ("u" :> 117) @@ ("v" :> 118) @@ ("w" :> 119) @@ ("x" :> 120) @@
  ("y" :> 121) @@ ("z" :> 122)

\* str.lower() on one character
LowerChar(c) ==
  CASE c = "A" -> "a" [] c = "B" -> "b" [] c = "D" -> "d" [] c = "I" -> "i"
    [] c = "R" -> "r" [] c = "S" -> "s" [] c = "W" -> "w" [] c = "Z" -> "z"
    [] OTHER -> c

\* str.lower()
lower(s) == [i \in 1..Len(s) |-> LowerChar(s[i])]

\* s < t for str: lexicographic by code point
RECURSIVE StrLess(_, _)
StrLess(s, t) ==
  IF t = <<>> THEN FALSE
  ELSE IF s = <<>> THEN TRUE
  ELSE IF s[1] = t[1] THEN StrLess(Tail(s), Tail(t))
  ELSE Ord[s[1]] < Ord[t[1]]

\* s.startswith(p)
startswith(s, p) == Len(s) >= Len(p) /\ SubSeq(s, 1, Len(p)) = p

\* s.endswith(p)
endswith(s, p) == Len(s) >= Len(p) /\ SubSeq(s, Len(s) - Len(p) + 1, Len(s)) = p

\* s.replace(a, b) for a one-character a and a string b (possibly empty)
RECURSIVE replace(_, _, _)
replace(s, a, b) ==
  IF s = <<>> THEN <<>>
  ELSE (IF s[1] = a THEN b ELSE <<s[1]>>) \o replace(Tail(s), a, b)

\* sep.join(parts)
RECURSIVE join(_, _)
join(sep, parts) ==
  IF parts = <<>> THEN <<>>
  ELSE IF Len(parts) = 1 THEN parts[1]
  ELSE parts[1] \o sep \o join(sep, Tail(parts))

(* ---------------------------- pathlib ---------------------------------- *)
\* index of the last "." of a name, 0 when there is none
RECURSIVE rfind_dot(_, _)
rfind_dot(name, i) ==
  IF i = 0 THEN 0 ELSE IF name[i] = "." THEN i ELSE rfind_dot(name, i - 1)

\* PurePath.suffix: the last dot-separated part, unless the dot leads or ends the name
suffix(name) ==
  LET i == rfind_dot(name, Len(name))
  IN IF 1 < i /\ i < Len(name) THEN SubSeq(name, i, Len(name)) ELSE <<>>

\* PurePath.stem
stem(name) ==
  LET i == rfind_dot(name, Len(name))
  IN IF 1 < i /\ i < Len(name) THEN SubSeq(name, 1, i - 1) ELSE name

\* the components of an entry's path relative to the scan root (relative_to(root_path).parts)
parts(f) == f.parent \o <<f.name>>

\* str() of a relative path; the empty path prints as "."
str_path(ps) == IF ps = <<>> THEN <<".">> ELSE join(<<"/">>, ps)

\* rel_path.with_suffix('') as components
with_suffix_empty(f) == f.parent \o <<stem(f.name)>>

\* PurePosixPath.__lt__: the component lists are compared, case-sensitively
RECURSIVE PathLess(_, _)
PathLess(p, q) ==
  IF q = <<>> THEN FALSE
  ELSE IF p = <<>> THEN TRUE
  ELSE IF p[1] = q[1] THEN PathLess(Tail(p), Tail(q))
  ELSE StrLess(p[1], q[1])

\* list.sort() / sorted(): a stable sort; lt[j, i] tells whether the key of element j
\* is smaller than the key of element i. Element j precedes element i when its key
\* is smaller, or not greater and j is earlier
StableSort(seq, lt) ==
  LET n == Len(seq)
      rank == [i \in 1..n |-> Cardinality({j \in 1..n : j # i /\
                (lt[j, i] \/ (~lt[i, j] /\ j < i))})]
  IN [k \in 1..n |-> seq[CHOOSE i \in 1..n : rank[i] = k - 1]]

(* ---------------------------- names ------------------------------------ *)
\* 'index.md': the name create_obsidian_index skips and writes, and index_generator's
\* default output name
IndexMd == <<"i", "n", "d", "e", "x", ".", "m", "d">>
\* a non-default --output name
OutMd == <<"o", "u", "t", ".", "m", "d">>
\* the synthetic group key "Root"
RootKey == <<"R", "o", "o", "t">>
\* the heading "Root Directory"
RootDirectory == <<"R", "o", "o", "t", " ", "D", "i", "r", "e", "c", "t", "o", "r", "y">>
\* the folder symbol that precedes a table-of-contents label, kept as one character
FolderSign == <<"[folder]", " ">>
Quote == "\""

\* default_ignores of should_ignore
default_ignores ==
  { <<".", "g", "i", "t">>,
    <<"_", "_", "p", "y", "c", "a", "c", "h", "e", "_", "_">>,
    <<".", "p", "y", "t", "e", "s", "t", "_", "c", "a", "c", "h", "e">>,
    <<"v", "e", "n", "v">>,
    <<"e", "n", "v">>,
    <<".", "v", "s", "c", "o", "d", "e">>,
    <<".", "i", "d", "e", "a">>,
    <<"n", "o", "d", "e", "_", "m", "o", "d", "u", "l", "e", "s">>,
    <<".", "D", "S", "_", "S", "t", "o", "r", "e">>,
    IndexMd }

\* the suffixes scan_directory files under 'other_files'
other_suffixes ==
  { <<".", "t", "x", "t">>, <<".", "j", "s", "o", "n">>, <<".", "y", "a", "m", "l">>,
    <<".", "y", "m", "l">>, <<".", "t", "o", "m", "l">>, <<".", "c", "f", "g">>,
    <<".", "i", "n", "i">> }

(* ---------------------------- the scanned tree -------------------------- *)
\* a directory entry under the scan root: the components of its parent directory
\* relative to the root, its name, whether it is a regular file, and its text lines
Entry(parent, name, isfile, lines) ==
  [parent |-> parent, name |-> name, isfile |-> isfile, lines |-> lines]

File(parent, name) == Entry(parent, name, TRUE, <<>>)

\* the entries a tree is drawn from, numbered; a tree is a set of these numbers
Universe ==
  << File(<< <<"a">> >>, <<"x", ".", "m", "d">>),                      \* a/x.md
     File(<< <<"b">> >>, <<"y", ".", "m", "d">>),                      \* b/y.md
     File(<< <<"A">> >>, <<"w", ".", "m", "d">>),                      \* A/w.md
     File(<< <<".", "g", "i", "t">> >>, <<"z", ".", "m", "d">>),       \* .git/z.md
     File(<< RootKey >>, <<"r", ".", "m", "d">>),                      \* Root/r.md
     File(<<>>, <<"Z", ".", "m", "d">>),                               \* Z.md
     File(<<>>, IndexMd),                                              \* index.md
     File(<<>>, <<"I", "n", "d", "e", "x", ".", "m", "d">>),           \* Index.md
     File(<<>>, OutMd),                                                \* out.md
     File(<<>>, <<"c", ".", "t", "x", "t">>),                          \* c.txt
     Entry(<<>>, <<"d", ".", "m", "d">>, FALSE, <<>>),                 \* d.md/ (a directory)
     Entry(<<>>, <<"B", ".", "p", "y">>, TRUE,                         \* B.py
           << <<Quote, Quote, Quote>>, <<" ", "D", "o", ".">>, <<Quote, Quote, Quote>> >>) >>

Ids == 1..Len(Universe)

\* the number of an entry of the universe
IdOf(e) == CHOOSE i \in Ids : Universe[i] = e

\* the entries of a tree
Entries(t) == {Universe[i] : i \in t}

\* every ordering of a set of entry numbers
RECURSIVE Perms(_)
Perms(S) ==
  IF S = {} THEN {<<>>}
  ELSE UNION {{<<x>> \o o : o \in Perms(S \ {x})} : x \in S}

\* rglob yields entries in the order of the directories' listings, which is arbitrary;
\* the entries enumerated before keep their relative order w, a new entry falls anywhere
KeepsOrder(o, w) ==
  SelectSeq(o, LAMBDA x : \E i \in 1..Len(w) : w[i] = x) = w

\* the entries that rglob yields, when it yields them in the order o of their numbers
Yielded(o) == [i \in 1..Len(o) |-> Universe[o[i]]]

(* ---------------------------- documents -------------------------------- *)
\* no file at the output path
NoDoc == [kind |-> "none"]
\* a file at the output path that no modelled run wrote
OldDoc == [kind |-> "old"]

(* ---------------------- create_obsidian_index.py ----------------------- *)
\* root_path.rglob("*.md"): every entry, file or directory, hidden or not, whose
\* name ends in ".md" (by number)
rglob_md(t) == {i \in t : endswith(Universe[i].name, <<".", "m", "d">>)}

\* the group key of an entry: str(rel_path.parent), or "Root" when that is "."
parent_dir(f) ==
  IF str_path(f.parent) # <<".">> THEN str_path(f.parent) ELSE RootKey

\* a slip: md_files[key] = [f], so a group keeps its last file only
dict_append_overwrites(d, key, f) ==
  IF \E i \in 1..Len(d) : d[i].key = key
  THEN [i \in 1..Len(d) |-> IF d[i].key = key THEN [d[i] EXCEPT !.files = <<f>>] ELSE d[i]]
  ELSE Append(d, [key |-> key, files |-> <<f>>])

\* md_files[key].append(f) on a defaultdict(list), which keeps its keys in
\* insertion order: a sequence of [key, files]
dict_append(d, key, f) ==
  IF \E i \in 1..Len(d) : d[i].key = key
  THEN [i \in 1..Len(d) |->
          IF d[i].key = key THEN [d[i] EXCEPT !.files = Append(@, f)] ELSE d[i]]
  ELSE Append(d, [key |-> key, files |-> <<f>>])

\* the loop of scan_markdown_files over the entries in the order rglob yields them
RECURSIVE scan_md_loop(_, _)
scan_md_loop(order, md) ==
  IF order = <<>> THEN md
  ELSE LET md_file == order[1]
       IN IF lower(md_file.name) = IndexMd
          THEN scan_md_loop(Tail(order), md)
          ELSE scan_md_loop(Tail(order), dict_append(md, parent_dir(md_file), md_file))

scan_markdown_files(order) == scan_md_loop(order, <<>>)

\* create_obsidian_link: [[link_path|display_name]]
create_obsidian_link(f) ==
  [link_path |-> str_path(with_suffix_empty(f)), display_name |-> stem(f.name)]

\* the sort key of sorted_dirs, (x != "Root", x.lower()), compared as tuples
dir_key_less(x, y) ==
  LET nx == (x # RootKey)
      ny == (y # RootKey)
  IN (~nx /\ ny) \/ (nx = ny /\ StrLess(lower(x), lower(y)))

\* the sort key of sorted_files, x.name.lower()
file_key_less(f, g) == StrLess(lower(f.name), lower(g.name))

\* the anchor of a table-of-contents line
anchor(directory) ==
  replace(replace(replace(lower(directory), " ", <<"-">>), "/", <<"-">>), ".", <<>>)

\* sum(len(files) for files in md_files.values())
RECURSIVE total_files(_)
total_files(md) == IF md = <<>> THEN 0 ELSE Len(md[1].files) + total_files(Tail(md))

\* md_files[directory]
dict_get(md, key) == md[CHOOSE i \in 1..Len(md) : md[i].key = key].files

\* generate_index_content: the document, block by block, at wall-clock time ts
generate_index_content(md, ts) ==
  LET keys        == [i \in 1..Len(md) |-> md[i].key]
      sorted_dirs == StableSort(keys, [i, j \in 1..Len(keys) |-> dir_key_less(keys[i], keys[j])])
      section(directory) ==
        LET files        == dict_get(md, directory)
            sorted_files == StableSort(files, [i, j \in 1..Len(files) |->
                                                file_key_less(files[i], files[j])])
        IN [header |-> IF directory = RootKey THEN RootDirectory ELSE directory,
            count  |-> Len(files),
            lines  |-> [j \in 1..Len(sorted_files) |-> create_obsidian_link(sorted_files[j])]]
  IN [kind        |-> "obsidian",
      generated   |-> ts,
      total_files |-> total_files(md),
      total_dirs  |-> Len(md),
      toc         |-> [i \in 1..Len(sorted_dirs) |->
                         [display |-> FolderSign \o (IF sorted_dirs[i] = RootKey
                                                     THEN RootDirectory ELSE sorted_dirs[i]),
                          anchor  |-> anchor(sorted_dirs[i])]],
      sections    |-> [i \in 1..Len(sorted_dirs) |-> section(sorted_dirs[i])]]

(* ------------------------- index_generator.py -------------------------- *)
\* should_ignore: some component is an ignored name or starts with "."
should_ignore(path, ignore_patterns) ==
  LET all_ignores == default_ignores \cup ignore_patterns
  IN \E i \in 1..Len(path) : path[i] \in all_ignores \/ startswith(path[i], <<".">>)

\* root_path.rglob('*'): every entry of the tree (by number)
rglob_all(t) == t

\* a slip: the lists sorted with key=lambda p: str(p).lower()
path_less_nocase(f, g) == StrLess(lower(str_path(parts(f))), lower(str_path(parts(g))))

\* the order of files_by_type[key].sort(): PurePosixPath comparison
path_less(f, g) == PathLess(parts(f), parts(g))

\* the loop of scan_directory over the entries in the order rglob yields them
RECURSIVE scan_dir_loop(_, _)
scan_dir_loop(order, fbt) ==
  IF order = <<>> THEN fbt
  ELSE LET item == order[1]
           rest == Tail(order)
       IN IF ~item.isfile THEN scan_dir_loop(rest, fbt)
          ELSE IF should_ignore(parts(item), {}) THEN scan_dir_loop(rest, fbt)
          ELSE IF suffix(item.name) = <<".", "p", "y">>
            THEN scan_dir_loop(rest, [fbt EXCEPT !.python_scripts = Append(@, item)])
          ELSE IF suffix(item.name) = <<".", "m", "d">>
            THEN scan_dir_loop(rest, [fbt EXCEPT !.markdown_files = Append(@, item)])
          ELSE IF suffix(item.name) \in other_suffixes
            THEN scan_dir_loop(rest, [fbt EXCEPT !.other_files = Append(@, item)])
          ELSE scan_dir_loop(rest, fbt)

\* scan_directory: the loop, then every list sorted
scan_directory(order) ==
  LET fbt == scan_dir_loop(order, [python_scripts |-> <<>>, markdown_files |-> <<>>,
                                   other_files |-> <<>>])
      sort(l) == StableSort(l, [i, j \in 1..Len(l) |-> path_less(l[i], l[j])])
  IN [python_scripts |-> sort(fbt.python_scripts),
      markdown_files |-> sort(fbt.markdown_files),
      other_files    |-> sort(fbt.other_files)]

\* str.strip(chars): leading and trailing characters of the set removed
RECURSIVE lstrip(_, _)
lstrip(s, chars) ==
  IF s # <<>> /\ s[1] \in chars THEN lstrip(Tail(s), chars) ELSE s
RECURSIVE rstrip(_, _)
rstrip(s, chars) ==
  IF s # <<>> /\ s[Len(s)] \in chars THEN rstrip(SubSeq(s, 1, Len(s) - 1), chars) ELSE s
strip(s, chars) == rstrip(lstrip(s, chars), chars)
Whitespace == {" ", "\n", "\t"}

\* three consecutive q in s
has_triple(s, q) == \E i \in 1..(Len(s) - 2) : SubSeq(s, i, i + 2) = <<q, q, q>>

\* the line loop of get_file_description
RECURSIVE description_loop(_, _)
description_loop(lines, in_docstring) ==
  IF lines = <<>> THEN <<>>
  ELSE LET stripped == strip(lines[1], Whitespace)
       IN IF has_triple(stripped, Quote) \/ has_triple(stripped, "'")
          THEN IF ~in_docstring
               THEN LET content == strip(strip(strip(stripped, {Quote}), {"'"}), Whitespace)
                    IN IF content # <<>> THEN content
                       ELSE description_loop(Tail(lines), TRUE)
               ELSE <<>>
          ELSE IF in_docstring /\ stripped # <<>> THEN stripped
          ELSE description_loop(Tail(lines), in_docstring)

\* get_file_description: of a .py file the first docstring line, else ""
get_file_description(f) ==
  IF suffix(f.name) = <<".", "p", "y">> THEN description_loop(f.lines, FALSE) ELSE <<>>

\* one list line of generate_index: - [path](path), with " - description" for a script
index_line(f, description) ==
  [label |-> str_path(parts(f)), ref |-> str_path(parts(f)), description |-> description]

\* the document generate_index assembles at wall-clock time ts: a section for each
\* non-empty category
generate_index_render(fbt, ts) ==
  LET scripts == [header |-> "Python Scripts",
                  lines  |-> [i \in 1..Len(fbt.python_scripts) |->
                                index_line(fbt.python_scripts[i],
                                           get_file_description(fbt.python_scripts[i]))]]
      docs    == [header |-> "Documentation",
                  lines  |-> [i \in 1..Len(fbt.markdown_files) |->
                                index_line(fbt.markdown_files[i], <<>>)]]
      others  == [header |-> "Configuration Files",
                  lines  |-> [i \in 1..Len(fbt.other_files) |->
                                index_line(fbt.other_files[i], <<>>)]]
  IN [kind      |-> "generator",
      generated |-> ts,
      sections  |-> (IF fbt.python_scripts # <<>> THEN <<scripts>> ELSE <<>>)
                    \o (IF fbt.markdown_files # <<>> THEN <<docs>> ELSE <<>>)
                    \o (IF fbt.other_files # <<>> THEN <<others>> ELSE <<>>)]

(* ---------------------------- state ------------------------------------ *)
VARIABLES
  tool,           \* which script runs: "obsidian" or "generator"
  root_ok,        \* the root path exists and is a directory
  output_file,    \* the output file name (index.md, or generator's --output)
  out_abs,        \* --output is an absolute path, so root_path / output_file is outside the root
  tree,           \* the entries under the root, by number
  walk,           \* SpecStableWalk: the order in which the file system enumerates them
  out,            \* the content of the file at the output path
  pc,             \* the position of the running invocation
  exit_code,      \* the exit status of the invocation, -1 while it runs
  md_files,       \* obsidian: the grouping scan_markdown_files returned
  files_by_type,  \* generator: the categories scan_directory returned
  content,        \* the document assembled in memory
  run,            \* the number of the running invocation
  now,            \* the wall clock, in seconds
  before,         \* history: the content of the output file when the invocation started
  writes,         \* history: how often the invocation wrote the output file
  raised,         \* history: an exception ended the invocation
  prev            \* history: the document the previous invocation wrote, NoDoc if none

vars == <<tool, root_ok, output_file, out_abs, tree, walk, out, pc, exit_code, md_files,
          files_by_type, content, run, now, before, writes, raised, prev>>

\* the directory entry at the output path when it lies under the root
OutEntry == IdOf(File(<<>>, output_file))

EmptyCategories == [python_scripts |-> <<>>, markdown_files |-> <<>>, other_files |-> <<>>]

\* the values of index_generator's --output: the default, a name under the root, and
\* an absolute path
Outputs == {<<IndexMd, FALSE>>, <<OutMd, FALSE>>, <<OutMd, TRUE>>}

Init ==
  /\ tool \in {"obsidian", "generator"}
  /\ root_ok \in BOOLEAN
  /\ \E o \in (IF tool = "obsidian" THEN {<<IndexMd, FALSE>>} ELSE Outputs) :
        output_file = o[1] /\ out_abs = o[2]
  /\ tree \in (IF root_ok THEN {t \in SUBSET Ids : Cardinality(t) <= MaxFiles} ELSE {{}})
  /\ walk = <<>>
  /\ out = IF ~out_abs /\ OutEntry \in tree THEN OldDoc ELSE NoDoc
  /\ pc = "main"
  /\ exit_code = -1
  /\ md_files = <<>>
  /\ files_by_type = EmptyCategories
  /\ content = NoDoc
  /\ run = 1
  /\ now = 1
  /\ before = out
  /\ writes = 0
  /\ raised = FALSE
  /\ prev = NoDoc

\* sys.exit(code), or the return of main
Exit(code) == pc' = "exit" /\ exit_code' = code

\* open(path, 'w') and f.write(content): the file at the output path holds the document
WriteOutput ==
  /\ out' = content
  /\ tree' = IF out_abs THEN tree ELSE tree \cup {OutEntry}
  /\ writes' = writes + 1

(* ---------------------- create_obsidian_index.main --------------------- *)
\* the root is missing or not a directory: print the error, sys.exit(1)
obs_main_bad_root ==
  /\ tool = "obsidian" /\ pc = "main" /\ ~root_ok
  /\ Exit(1)
  /\ UNCHANGED <<tool, root_ok, output_file, out_abs, tree, walk, out, md_files, files_by_type,
                 content, run, now, before, writes, raised, prev>>

\* the root is a directory: go on to the scan
obs_main_root_ok ==
  /\ tool = "obsidian" /\ pc = "main" /\ root_ok
  /\ pc' = "scan"
  /\ UNCHANGED <<tool, root_ok, output_file, out_abs, tree, walk, out, exit_code, md_files,
                 files_by_type, content, run, now, before, writes, raised, prev>>

\* md_files = scan_markdown_files(root_path)
obs_scan ==
  /\ tool = "obsidian" /\ pc = "scan"
  /\ \E o \in Perms(rglob_md(tree)) : md_files' = scan_markdown_files(Yielded(o))
  /\ pc' = "scanned"
  /\ UNCHANGED <<tool, root_ok, output_file, out_abs, tree, walk, out, exit_code, files_by_type,
                 content, run, now, before, writes, raised, prev>>

\* the same scan on a file system that keeps the order of its listings from run to run
obs_scan_stable ==
  /\ tool = "obsidian" /\ pc = "scan"
  /\ \E o \in Perms(rglob_md(tree)) :
        /\ KeepsOrder(o, walk)
        /\ walk' = o
        /\ md_files' = scan_markdown_files(Yielded(o))
  /\ pc' = "scanned"
  /\ UNCHANGED <<tool, root_ok, output_file, out_abs, tree, out, exit_code, files_by_type,
                 content, run, now, before, writes, raised, prev>>

\* if not md_files: sys.exit(0)
obs_no_files ==
  /\ tool = "obsidian" /\ pc = "scanned" /\ md_files = <<>>
  /\ Exit(0)
  /\ UNCHANGED <<tool, root_ok, output_file, out_abs, tree, walk, out, md_files, files_by_type,
                 content, run, now, before, writes, raised, prev>>

\* index_content = generate_index_content(md_files, root_path)
obs_generate ==
  /\ tool = "obsidian" /\ pc = "scanned" /\ md_files # <<>>
  /\ content' = generate_index_content(md_files, now)
  /\ pc' = "rendered"
  /\ UNCHANGED <<tool, root_ok, output_file, out_abs, tree, walk, out, exit_code, md_files,
                 files_by_type, run, now, before, writes, raised, prev>>

\* the document is written to root_path / "index.md"
obs_write ==
  /\ tool = "obsidian" /\ pc = "rendered"
  /\ WriteOutput
  /\ Exit(0)
  /\ UNCHANGED <<tool, root_ok, output_file, out_abs, walk, md_files, files_by_type, content,
                 run, now, before, raised, prev>>

\* a slip: the output file is opened for writing before the scan, so an exception
\* leaves it truncated
obs_raise_truncates ==
  /\ tool = "obsidian" /\ pc \in {"scan", "scanned"}
  /\ Exit(1)
  /\ raised' = TRUE
  /\ out' = [kind |-> "truncated"]
  /\ tree' = tree \cup {OutEntry}
  /\ UNCHANGED <<tool, root_ok, output_file, out_abs, walk, md_files, files_by_type,
                 content, run, now, before, writes, prev>>

\* an exception in the scan or in the rendering is not handled: the interpreter
\* ends with status 1
obs_raise ==
  /\ tool = "obsidian" /\ pc \in {"scan", "scanned"}
  /\ Exit(1)
  /\ raised' = TRUE
  /\ UNCHANGED <<tool, root_ok, output_file, out_abs, tree, walk, out, md_files, files_by_type,
                 content, run, now, before, writes, prev>>

(* ---------------------- index_generator.main --------------------------- *)
\* generate_index is entered: root_path and output_path are resolved, nothing is checked
gen_start ==
  /\ tool = "generator" /\ pc = "main"
  /\ pc' = "scan"
  /\ UNCHANGED <<tool, root_ok, output_file, out_abs, tree, walk, out, exit_code, md_files,
                 files_by_type, content, run, now, before, writes, raised, prev>>

\* files_by_type = scan_directory(root_dir); rglob yields nothing under a root that
\* is no directory
gen_scan ==
  /\ tool = "generator" /\ pc = "scan"
  /\ \E o \in Perms(IF root_ok THEN rglob_all(tree) ELSE {}) :
        files_by_type' = scan_directory(Yielded(o))
  /\ pc' = "scanned"
  /\ UNCHANGED <<tool, root_ok, output_file, out_abs, tree, walk, out, exit_code, md_files,
                 content, run, now, before, writes, raised, prev>>

\* the same scan on a file system that keeps the order of its listings from run to run
gen_scan_stable ==
  /\ tool = "generator" /\ pc = "scan"
  /\ \E o \in Perms(IF root_ok THEN rglob_all(tree) ELSE {}) :
        /\ KeepsOrder(o, walk)
        /\ walk' = o
        /\ files_by_type' = scan_directory(Yielded(o))
  /\ pc' = "scanned"
  /\ UNCHANGED <<tool, root_ok, output_file, out_abs, tree, out, exit_code, md_files,
                 content, run, now, before, writes, raised, prev>>

\* the content list is assembled
gen_render ==
  /\ tool = "generator" /\ pc = "scanned"
  /\ content' = generate_index_render(files_by_type, now)
  /\ pc' = "rendered"
  /\ UNCHANGED <<tool, root_ok, output_file, out_abs, tree, walk, out, exit_code, md_files,
                 files_by_type, run, now, before, writes, raised, prev>>

\* open(output_path, 'w') succeeds when the directory of output_path exists
gen_write ==
  /\ tool = "generator" /\ pc = "rendered" /\ (root_ok \/ out_abs)
  /\ WriteOutput
  /\ Exit(0)
  /\ UNCHANGED <<tool, root_ok, output_file, out_abs, walk, md_files, files_by_type, content,
                 run, now, before, raised, prev>>

\* open(output_path, 'w') raises under a root that is no directory; main catches
\* the exception, sys.exit(1)
gen_write_fails ==
  /\ tool = "generator" /\ pc = "rendered" /\ ~(root_ok \/ out_abs)
  /\ Exit(1)
  /\ raised' = TRUE
  /\ UNCHANGED <<tool, root_ok, output_file, out_abs, tree, walk, out, md_files, files_by_type,
                 content, run, now, before, writes, prev>>

\* an exception in the scan or in the rendering: main catches it, sys.exit(1)
gen_raise ==
  /\ tool = "generator" /\ pc \in {"scan", "scanned"}
  /\ Exit(1)
  /\ raised' = TRUE
  /\ UNCHANGED <<tool, root_ok, output_file, out_abs, tree, walk, out, md_files, files_by_type,
                 content, run, now, before, writes, prev>>

\* the tool is invoked again on the same root with the same arguments
rerun ==
  /\ pc = "exit" /\ run < MaxRuns
  /\ pc' = "main"
  /\ exit_code' = -1
  /\ md_files' = <<>>
  /\ files_by_type' = EmptyCategories
  /\ content' = NoDoc
  /\ run' = run + 1
  /\ now' = now + 1
  /\ before' = out
  /\ writes' = 0
  /\ raised' = FALSE
  /\ prev' = IF writes > 0 THEN out ELSE NoDoc
  /\ UNCHANGED <<tool, root_ok, output_file, out_abs, tree, walk, out>>

Next ==
  \/ obs_main_bad_root \/ obs_main_root_ok \/ obs_scan \/ obs_no_files
  \/ obs_generate \/ obs_write \/ obs_raise
  \/ gen_start \/ gen_scan \/ gen_render \/ gen_write \/ gen_write_fails \/ gen_raise
  \/ rerun

\* every scan sees the entries in an arbitrary order, as rglob promises no order
Spec == Init /\ [][Next]_vars

NextStable ==
  \/ obs_main_bad_root \/ obs_main_root_ok \/ obs_scan_stable \/ obs_no_files
  \/ obs_generate \/ obs_write \/ obs_raise
  \/ gen_start \/ gen_scan_stable \/ gen_render \/ gen_write \/ gen_write_fails \/ gen_raise
  \/ rerun

\* the file system enumerates the entries it already held in the same order in every run
SpecStableWalk == Init /\ [][NextStable]_vars

(* ---------------------------- reading a document ------------------------ *)
\* a document has been assembled by the running invocation
Rendered == content.kind \in {"obsidian", "generator"}

\* the list line that stands for entry f in the running tool's document
LineOf(f) ==
  IF tool = "obsidian" THEN create_obsidian_link(f)
  ELSE index_line(f, get_file_description(f))

\* how many list lines of the sections stand for entry f
RECURSIVE ListedIn(_, _)
ListedIn(sections, f) ==
  IF sections = <<>> THEN 0
  ELSE Cardinality({j \in 1..Len(sections[1].lines) : sections[1].lines[j] = LineOf(f)})
       + ListedIn(Tail(sections), f)

Listed(doc, f) == ListedIn(doc.sections, f)

\* the entry a list line stands for
FileOfLine(line) == CHOOSE e \in Entries(tree) : LineOf(e) = line

\* some component of the root-relative path starts with "." or is in the fixed
\* exclusion set
HiddenOrExcluded(f) ==
  \E i \in 1..Len(parts(f)) :
     parts(f)[i][1] = "." \/ parts(f)[i] \in default_ignores

\* the extensions the running tool collects
Collected(f) ==
  IF tool = "obsidian" THEN suffix(f.name) = <<".", "m", "d">>
  ELSE suffix(f.name) \in {<<".", "p", "y">>, <<".", "m", "d">>} \cup other_suffixes

\* a document with its timestamp line blanked
NoTimestamp(doc) == [doc EXCEPT !.generated = 0]

\* the scan of the running invocation ended and found no file
FoundNone ==
  IF tool = "obsidian" THEN md_files = <<>> ELSE files_by_type = EmptyCategories

(* ---------------------------- C1 --------------------------------------- *)
\* C1 as stated: in both tools every regular file under the root that matches no
\* exclusion rule (a hidden or excluded path component, the output name, and for
\* index_generator an extension outside its list) is listed exactly once.
C1_AsStated ==
  Rendered =>
    \A f \in Entries(tree) :
      ( /\ f.isfile
        /\ ~HiddenOrExcluded(f)
        /\ f.name # output_file
        /\ (tool = "generator" => Collected(f)) )
      => Listed(content, f) = 1

\* C1 (amended): every regular file under the root whose extension the tool collects
\* (.md for create_obsidian_index; .py, .md and the configuration suffixes for
\* index_generator) and that matches no exclusion rule, where create_obsidian_index
\* matches the name index.md in any letter case, is listed exactly once.
C1_Complete ==
  Rendered =>
    \A f \in Entries(tree) :
      ( /\ f.isfile
        /\ Collected(f)
        /\ ~HiddenOrExcluded(f)
        /\ f.name # output_file
        /\ (tool = "obsidian" => lower(f.name) # IndexMd) )
      => Listed(content, f) = 1

\* both tools' case: a document over a tree with two listed files of one group and a
\* file that is not collected
C1_Witness ==
  /\ Rendered
  /\ \E f, g, h \in Entries(tree) :
       /\ f # g /\ f.parent = g.parent
       /\ Listed(content, f) = 1 /\ Listed(content, g) = 1
       /\ h.isfile /\ Listed(content, h) = 0

(* ---------------------------- C2 --------------------------------------- *)
\* C2: a file named index.md, or named as the configured output file, is never
\* listed, also when a previous run wrote it.
C2_OutputNeverListed ==
  (Rendered /\ ~out_abs) =>
    \A f \in Entries(tree) :
      (f.name = IndexMd \/ f.name = output_file) => Listed(content, f) = 0

(* ---------------------------- C3 --------------------------------------- *)
\* C3: when the scan of an existing root finds no matching file, the tool ends with
\* status zero and the output file is as it was before the run.
C3_EmptyLeavesOutput ==
  (pc = "exit" /\ root_ok /\ ~raised /\ FoundNone) =>
    (exit_code = 0 /\ out = before)

(* ---------------------------- C4 --------------------------------------- *)
\* C4: when the root is missing or no directory, the tool never starts the
\* traversal, ends with a non-zero status and writes no file.
C4_BadRootDetectedFirst ==
  ~root_ok =>
    /\ pc \in {"main", "exit"}
    /\ (pc = "exit" => exit_code # 0)
    /\ writes = 0 /\ out = before

(* ---------------------------- C5 --------------------------------------- *)
\* C5: no file with a hidden or excluded path component is listed.
C5_ExcludedNeverListed ==
  Rendered =>
    \A f \in Entries(tree) : HiddenOrExcluded(f) => Listed(content, f) = 0

(* ---------------------------- C6 --------------------------------------- *)
\* C6: two consecutive runs with the same arguments on a tree that only the first
\* run's write changed produce documents that differ in the timestamp line only.
C6_Idempotent ==
  (pc = "exit" /\ writes = 1 /\ prev # NoDoc) =>
    NoTimestamp(out) = NoTimestamp(prev)

(* ---------------------------- C7 --------------------------------------- *)
\* the files of a section, in the order of its lines
SectionFiles(sec) == [j \in 1..Len(sec.lines) |-> FileOfLine(sec.lines[j])]

NameLessNoCase(f, g) == StrLess(lower(f.name), lower(g.name))
PathStringLessNoCase(f, g) ==
  StrLess(lower(str_path(parts(f))), lower(str_path(parts(g))))
PathLessByComponent(f, g) == PathLess(parts(f), parts(g))

\* a sequence of files is in non-decreasing order of each of these
ByNameNoCase(fs) == \A j, k \in 1..Len(fs) : j < k => ~NameLessNoCase(fs[k], fs[j])
ByPathStringNoCase(fs) == \A j, k \in 1..Len(fs) : j < k => ~PathStringLessNoCase(fs[k], fs[j])
ByPathComponents(fs) == \A j, k \in 1..Len(fs) : j < k => ~PathLessByComponent(fs[k], fs[j])

Headers(doc) == [i \in 1..Len(doc.sections) |-> doc.sections[i].header]

\* the headings the document would have had, had rglob yielded the same entries in
\* the order o
HeadersFor(o) == Headers(generate_index_content(scan_markdown_files(Yielded(o)), now))

\* the table of contents names the groups of the sections, in the same order
TocMatchesSections ==
  /\ Len(content.toc) = Len(content.sections)
  /\ \A i \in 1..Len(content.toc) :
       content.toc[i].display = FolderSign \o content.sections[i].header

\* "Root Directory" comes first, the other groups follow in case-insensitive order
RootFirstThenNoCase ==
  LET hs == Headers(content)
  IN \A i, j \in 1..Len(hs) :
       i < j => /\ hs[j] # RootDirectory
                /\ (hs[i] # RootDirectory => ~StrLess(lower(hs[j]), lower(hs[i])))

\* C8 as stated: the table of contents and the sections list the groups in one
\* order, Root first and the rest case-insensitively by name, and that order is the
\* same for every order in which the same files are discovered.
C8_AsStated ==
  (Rendered /\ tool = "obsidian") =>
    /\ TocMatchesSections
    /\ RootFirstThenNoCase
    /\ \A o \in Perms(rglob_md(tree)) : HeadersFor(o) = Headers(content)

C10_GroupIsParent ==
  tool = "obsidian" =>
    \A i, j \in 1..Len(md_files) :
      \A f \in 1..Len(md_files[i].files), g \in 1..Len(md_files[j].files) :
        /\ (i = j) <=> (md_files[i].files[f].parent = md_files[j].files[g].parent)
        /\ (md_files[i].key = RootKey) <=> (md_files[i].files[f].parent = <<>>)
====
